---- MODULE Spec2Model ----
(***************************************************************************)
(* A3D::SqliteWrapper (SqliteWrapper.h / SqliteWrapper.cpp): one engine    *)
(* handle behind a std::shared_mutex, and ExecStatement's retry/reconnect  *)
(* loop, run by several threads.  Each thread's position in ExecStatement  *)
(* and in Reconnect is a program counter; the engine is an external        *)
(* collaborator whose status codes are chosen nondeterministically.        *)
(***************************************************************************)
EXTENDS Integers, Sequences, FiniteSets, TLC

----------------------------------------------------------------------------
(* Bounds of the model *)

\* the per-call history counters (submissions, BUSY replies, sleeps) stop
\* counting here; it exceeds the program's cap of 10 local retries
CounterCap == 12

\* BUSY replies the engine stub gives in a run of the specifications that
\* bound them (several threads, transactions, result rows)
MaxBusyReplies == 1

\* result rows the engine stub delivers in a run
MaxRows == 2

----------------------------------------------------------------------------
(* Program constants *)

SQLITE_OK == 0

SQLITE_ERROR == 1

SQLITE_BUSY == 5

SQLITE_IOERR == 10

BusyRetryCap == 10

DefaultTimeoutMs == 3000

Statuses == {SQLITE_OK, SQLITE_ERROR, SQLITE_BUSY, SQLITE_IOERR}

Timeouts == {0, DefaultTimeoutMs}

Threads == {"t1", "t2"}

None == "none"

\* the engine stub's BUSY allowance: <<n>> is n replies left, <<>> no limit
Unlimited == << >>

\* the statements a caller submits: any statement, and the texts of
\* BeginTransaction (and its two variants), EndTransaction, RollBackTransaction
Kinds == {"SELECT", "BEGIN", "COMMIT", "ROLLBACK"}

\* a column value the engine hands to the row callback: a text or a null
\* pointer
NullValue == "NULL"

Data == {"v", NullValue}

----------------------------------------------------------------------------
VARIABLES
    m_isOpened,       \* bool m_isOpened
    m_timeoutMs,      \* unsigned m_timeoutMs
    m_database,       \* state of the handle m_database points to
    writer,           \* m_dbConnectionMutex: the exclusive holder, or None
    readers,          \* m_dbConnectionMutex: the shared holders
    changesOf,        \* engine: whose statement sqlite3_a3d_changes describes
    autocommit,       \* engine: sqlite3_a3d_get_autocommit of the handle
    destroyer,        \* the thread running ~SqliteWrapper, or None
    busyLeft,         \* engine stub: BUSY replies left, <<n>> or Unlimited
    rowsLeft,         \* engine stub: result rows left to deliver
    kinds,            \* the statements the callers submit
    callers,          \* the threads that call ExecStatement
    observed,         \* the threads whose calls' histories are recorded
    pc,               \* per thread: position in ExecStatement / Reconnect
    stmt,             \* per thread: parameter statementText
    retry,            \* per thread: parameter retry
    wantRows,         \* per thread: pnUpdatedRows != nullptr
    rowsOf,           \* per thread: whose statement *pnUpdatedRows describes
    retValue,         \* per thread: the output parameter retValue
    results,          \* per thread: the output parameter results
    alreadyTriedReconnecting,
    done,
    i,
    result,           \* per thread: the boolean the call returned
    nExec,            \* history: submissions of this call
    nBusy,            \* history: BUSY replies of this call
    nSleep,           \* history: busy-backoff sleeps of this call
    nReconnect,       \* history: Reconnect calls of this call
    seen,             \* history: the failure codes this call received
    reconnected,      \* history: "none" | "ok" | "failed"
    budget,           \* history: "zero" | "nonzero" | "mixed" during the call
    tm0,              \* history: m_timeoutMs when the call started
    cols,             \* history: the column count of the call's statement
    sink0,            \* history: what results held when the call started
    delivered,        \* history: the rows the callback got during the call
    lastRows,         \* history: the rows of the call's latest submission
    closedInTxn,      \* history: Reconnect closed a handle inside a transaction
    dTxn,             \* history: a transaction was open when destruction began
    dRollback         \* history: destruction's rollback, "none"|"ok"|"failed"

shared == <<m_isOpened, m_timeoutMs, m_database, writer, readers, changesOf,
            autocommit, destroyer, busyLeft, rowsLeft, kinds, callers,
            observed>>

locals == <<pc, stmt, retry, wantRows, rowsOf, retValue, results,
            alreadyTriedReconnecting, done, i, result>>

history == <<nExec, nBusy, nSleep, nReconnect, seen, reconnected, budget, tm0,
             cols, sink0, delivered, lastRows, closedInTxn, dTxn, dRollback>>

vars == <<shared, locals, history>>

\* the variables no step of a call changes
config == <<m_isOpened, m_timeoutMs, destroyer, kinds, callers, observed>>

\* the histories of destruction
dHistory == <<dTxn, dRollback>>

\* the histories set when a call starts
startHistory == <<tm0, cols, sink0>>

Bump(n) == IF n < CounterCap THEN n + 1 ELSE n

\* a history variable changes only for an observed thread
Rec(t, new, old) == IF t \in observed THEN new ELSE old

Active(t) == pc[t] \notin {"idle", "returned", "intxn", "dclose", "destroyed"}

----------------------------------------------------------------------------
(* Pure pieces of the code *)

\* variant: the readiness check is skipped
IsReadyAlways(opened) == TRUE

\* IsReady()
IsReady(opened) == opened

\* variant: every submission takes the shared side
NeedsExclusiveNever(rowsWanted) == FALSE

\* the guard mode of one submission: exclusive iff a row count is wanted
NeedsExclusive(rowsWanted) == rowsWanted

\* std::shared_mutex: lock() and lock_shared() can proceed
CanLock(w, rs) == w = None /\ rs = {}

\* variant: a shared holder keeps other shared callers out
CanLockSharedAlone(w, rs) == w = None /\ rs = {}

CanLockShared(w, rs) == w = None

\* variants of the busy-retry condition: i++ <= 10, retry not consulted,
\* i++ < 9, and no "0 = forever"
BusyRetriesOffByOne(tm, r, iv) == tm = 0 \/ (r /\ iv <= BusyRetryCap)

BusyRetriesIgnoreFlag(tm, r, iv) == tm = 0 \/ iv < BusyRetryCap

BusyRetriesShort(tm, r, iv) == tm = 0 \/ (r /\ iv < BusyRetryCap - 1)

BusyRetriesNoForever(tm, r, iv) == r /\ iv < BusyRetryCap

\* case SQLITE_BUSY: m_timeoutMs == 0 || retry && i++ < 10
BusyRetries(tm, r, iv) == tm = 0 \/ (r /\ iv < BusyRetryCap)

\* the i++ of that condition is evaluated only when m_timeoutMs != 0 and retry
BusyCounter(tm, r, iv) == IF tm # 0 /\ r THEN iv + 1 ELSE iv

\* variant: a failed submission is never followed by a Reconnect
MayReconnectNever(already) == FALSE

\* variant: the flag is not consulted
MayReconnectAlways(already) == TRUE

\* if (alreadyTriedReconnecting) done = true; else done = !Reconnect()
MayReconnect(already) == ~already

\* return retValue == 0
ReturnValue(rv) == rv = SQLITE_OK

\* what sqlite3_a3d_exec can answer on the handle
EngineReplies(h, left) ==
    IF h = "open"
    THEN IF left = <<0>> THEN Statuses \ {SQLITE_BUSY} ELSE Statuses
    ELSE {SQLITE_ERROR}


\* the engine answers success only to a statement that fits the transaction
\* state: BEGIN outside a transaction, COMMIT and ROLLBACK inside one
EngineAccepts(k, ac) ==
    IF k = "BEGIN" THEN ac = 1
    ELSE IF k \in {"COMMIT", "ROLLBACK"} THEN ac = 0
    ELSE TRUE

\* autocommit mode is disabled by a BEGIN statement and re-enabled by a COMMIT
\* or ROLLBACK
AutocommitAfter(k, status, ac) ==
    IF status # SQLITE_OK THEN ac
    ELSE IF k = "BEGIN" THEN 0
    ELSE IF k \in {"COMMIT", "ROLLBACK"} THEN 1
    ELSE ac

\* variant: the comparison is inverted
IsInTransactionInverted(ac) == ac # 0

\* IsInTransaction(): 0 == sqlite3_a3d_get_autocommit(m_database)
IsInTransaction(ac) == ac = 0

\* variant: destruction closes without looking at the transaction
RollsBackFirstNever(inTx) == FALSE

\* DestroyDatabase: if (IsInTransaction() && !RollBackTransaction())
RollsBackFirst(inTx) == inTx

\* std::string(data[i]), or std::string("") for a null pointer
Text(d) == IF d = NullValue THEN "" ELSE d

\* results->resize(count)
Resize(res, count) ==
    [c \in 1..count |-> IF c <= Len(res) THEN res[c] ELSE << >>]

\* variant: a null value adds no cell
getResultsCallBackSkipNull(res, count, data) ==
    [c \in 1..count |->
        IF data[c] = NullValue THEN Resize(res, count)[c]
        ELSE Append(Resize(res, count)[c], Text(data[c]))]

\* getResultsCallBack(container, count, data, columns)
getResultsCallBack(res, count, data) ==
    [c \in 1..count |-> Append(Resize(res, count)[c], Text(data[c]))]

\* the callback invoked for each row of one submission, in order
RECURSIVE Deliver(_, _)
Deliver(res, rows) ==
    IF rows = << >> THEN res
    ELSE Deliver(getResultsCallBack(res, Len(rows[1]), rows[1]), Tail(rows))

\* the rows one submission can deliver: up to the stub's allowance, each row
\* with the statement's column count
RowBatches(c, left) ==
    UNION {[1..n -> [1..c -> Data]] : n \in 0..left[1]}

\* what the caller's results vector can hold before the call, and the column
\* counts of its statements
Sinks(left) == IF left = <<0>> THEN {<< >>} ELSE {<< >>, << <<"old">> >>}

ColumnCounts(left) == IF left = <<0>> THEN {1} ELSE {1, 2}

----------------------------------------------------------------------------
(* Construction *)

\* the value the caller's retValue variable holds before the call
CallerStatus == {SQLITE_OK, SQLITE_ERROR}

\* SqliteWrapper(path, timeoutMs): InitDatabase opens the handle or leaves the
\* connection not ready; no call is in progress
InitWith(cs, obs, left, rws, ks) ==
    /\ m_isOpened \in BOOLEAN
    /\ m_database \in (IF m_isOpened THEN {"open"} ELSE {"null", "failed"})
    /\ m_timeoutMs \in Timeouts
    /\ writer = None
    /\ readers = {}
    /\ changesOf = None
    /\ autocommit = 1
    /\ destroyer = None
    /\ busyLeft = left
    /\ rowsLeft = rws
    /\ kinds = ks
    /\ callers = cs
    /\ observed = obs
    /\ pc = [t \in Threads |-> "idle"]
    /\ stmt = [t \in Threads |-> "SELECT"]
    /\ retry = [t \in Threads |-> TRUE]
    /\ wantRows = [t \in Threads |-> FALSE]
    /\ rowsOf = [t \in Threads |-> None]
    /\ retValue = [t \in Threads |-> SQLITE_OK]
    /\ results = [t \in Threads |-> << >>]
    /\ alreadyTriedReconnecting = [t \in Threads |-> FALSE]
    /\ done = [t \in Threads |-> FALSE]
    /\ i = [t \in Threads |-> 0]
    /\ result = [t \in Threads |-> FALSE]
    /\ nExec = [t \in Threads |-> 0]
    /\ nBusy = [t \in Threads |-> 0]
    /\ nSleep = [t \in Threads |-> 0]
    /\ nReconnect = [t \in Threads |-> 0]
    /\ seen = [t \in Threads |-> {}]
    /\ reconnected = [t \in Threads |-> "none"]
    /\ budget = [t \in Threads |-> "zero"]
    /\ tm0 = [t \in Threads |-> 0]
    /\ cols = [t \in Threads |-> 1]
    /\ sink0 = [t \in Threads |-> << >>]
    /\ delivered = [t \in Threads |-> << >>]
    /\ lastRows = [t \in Threads |-> << >>]
    /\ closedInTxn = [t \in Threads |-> FALSE]
    /\ dTxn = FALSE
    /\ dRollback = "none"

\* every thread calls; the engine stub answers BUSY a bounded number of times
Init == InitWith(Threads, {}, <<MaxBusyReplies>>, <<0>>, {"SELECT"})

\* one calling thread (another may still call SetTimeout); the engine may
\* answer BUSY for ever
InitOne == InitWith({"t1"}, {"t1"}, Unlimited, <<0>>, {"SELECT"})

\* one calling thread that also uses the transaction helpers
InitTxn == InitWith({"t1"}, {"t1"}, <<MaxBusyReplies>>, <<0>>, Kinds)

\* one calling thread whose statements deliver result rows
InitRows == InitWith({"t1"}, {}, <<MaxBusyReplies>>, <<MaxRows>>, {"SELECT"})

\* groups of variables, for the steps that leave them alone
guard == <<writer, readers>>

engine == <<m_database, changesOf, autocommit, busyLeft, rowsLeft>>

params == <<stmt, retry, wantRows>>

rowHistory == <<delivered, lastRows>>

----------------------------------------------------------------------------
(* void SetTimeout(unsigned int timeoutMs), called by any thread *)

SetTimeout(v) ==
    /\ destroyer = None
    /\ m_timeoutMs' = v
    /\ budget' = [t \in Threads |->
                    IF Active(t) /\ v # m_timeoutMs
                    THEN Rec(t, "mixed", budget[t]) ELSE budget[t]]
    /\ UNCHANGED <<m_isOpened, destroyer, kinds, callers, observed, guard,
                   engine, locals>>
    /\ UNCHANGED <<nExec, nBusy, nSleep, nReconnect, seen, reconnected,
                   startHistory, rowHistory, closedInTxn, dHistory>>

----------------------------------------------------------------------------
(* bool ExecStatement(text, retValue, results, retry, pnUpdatedRows) *)

\* entry: if (!IsReady()) return false; else the locals are initialised
EnterExec(t, k, r, rows, rv, sink, c) ==
    /\ stmt' = [stmt EXCEPT ![t] = k]
    /\ retry' = [retry EXCEPT ![t] = r]
    /\ wantRows' = [wantRows EXCEPT ![t] = rows]
    /\ retValue' = [retValue EXCEPT ![t] = rv]
    /\ results' = [results EXCEPT ![t] = sink]
    /\ rowsOf' = [rowsOf EXCEPT ![t] = None]
    /\ alreadyTriedReconnecting' = [alreadyTriedReconnecting EXCEPT ![t] = FALSE]
    /\ done' = [done EXCEPT ![t] = FALSE]
    /\ i' = [i EXCEPT ![t] = 0]
    /\ IF IsReady(m_isOpened)
       THEN /\ pc' = [pc EXCEPT ![t] = "lock"]
            /\ UNCHANGED result
       ELSE /\ pc' = [pc EXCEPT ![t] = "returned"]
            /\ result' = [result EXCEPT ![t] = FALSE]
    /\ nExec' = [nExec EXCEPT ![t] = 0]
    /\ nBusy' = [nBusy EXCEPT ![t] = 0]
    /\ nSleep' = [nSleep EXCEPT ![t] = 0]
    /\ nReconnect' = [nReconnect EXCEPT ![t] = 0]
    /\ seen' = [seen EXCEPT ![t] = {}]
    /\ reconnected' = [reconnected EXCEPT ![t] = "none"]
    /\ budget' = [budget EXCEPT ![t] =
                    Rec(t, IF m_timeoutMs = 0 THEN "zero" ELSE "nonzero", @)]
    /\ tm0' = [tm0 EXCEPT ![t] = Rec(t, m_timeoutMs, @)]
    /\ cols' = [cols EXCEPT ![t] = c]
    /\ sink0' = [sink0 EXCEPT ![t] = sink]
    /\ delivered' = [delivered EXCEPT ![t] = << >>]
    /\ lastRows' = [lastRows EXCEPT ![t] = << >>]
    /\ closedInTxn' = [closedInTxn EXCEPT ![t] = FALSE]

\* a caller's call, the transaction helpers included
Call(t, k, r, rows, rv, sink, c) ==
    /\ t \in callers
    /\ destroyer = None
    /\ pc[t] \in {"idle", "returned"}
    /\ k \in kinds
    /\ EnterExec(t, k, r, rows, rv, sink, c)
    /\ UNCHANGED <<shared, dHistory>>

\* top of the loop: *pnUpdatedRows = 0; lock()   or   lock_shared()
Lock(t) ==
    /\ pc[t] = "lock"
    /\ IF NeedsExclusive(wantRows[t])
       THEN /\ CanLock(writer, readers)
            /\ writer' = t
            /\ UNCHANGED readers
       ELSE /\ CanLockShared(writer, readers)
            /\ readers' = readers \cup {t}
            /\ UNCHANGED writer
    /\ rowsOf' = [rowsOf EXCEPT ![t] = None]
    /\ pc' = [pc EXCEPT ![t] = "exec"]
    /\ UNCHANGED <<config, engine, params, retValue, results,
                   alreadyTriedReconnecting, done, i, result, history>>

\* retValue = sqlite3_a3d_exec(m_database, text, getResultsCallBack, &results):
\* the engine invokes the callback for the rows it delivers and answers
Exec(t, status, rows) ==
    /\ pc[t] = "exec"
    /\ status \in EngineReplies(m_database, busyLeft)
    /\ status = SQLITE_OK => EngineAccepts(stmt[t], autocommit)
    /\ m_database # "open" => rows = << >>
    /\ retValue' = [retValue EXCEPT ![t] = status]
    /\ results' = [results EXCEPT ![t] = Deliver(@, rows)]
    /\ changesOf' = IF status = SQLITE_OK THEN t ELSE changesOf
    /\ autocommit' = AutocommitAfter(stmt[t], status, autocommit)
    /\ busyLeft' = IF status = SQLITE_BUSY /\ busyLeft # Unlimited
                   THEN <<busyLeft[1] - 1>> ELSE busyLeft
    /\ rowsLeft' = <<rowsLeft[1] - Len(rows)>>
    /\ pc' = [pc EXCEPT ![t] =
                IF wantRows[t] /\ status = SQLITE_OK THEN "changes" ELSE "unlock"]
    /\ nExec' = [nExec EXCEPT ![t] = Rec(t, Bump(@), @)]
    /\ nBusy' = [nBusy EXCEPT ![t] =
                  IF status = SQLITE_BUSY THEN Rec(t, Bump(@), @) ELSE @]
    /\ seen' = [seen EXCEPT ![t] =
                  IF status = SQLITE_OK THEN @ ELSE Rec(t, @ \cup {status}, @)]
    /\ delivered' = [delivered EXCEPT ![t] = @ \o rows]
    /\ lastRows' = [lastRows EXCEPT ![t] = rows]
    /\ UNCHANGED <<config, guard, m_database, params, rowsOf,
                   alreadyTriedReconnecting, done, i, result>>
    /\ UNCHANGED <<nSleep, nReconnect, reconnected, budget, startHistory,
                   closedInTxn, dHistory>>

\* *pnUpdatedRows = sqlite3_a3d_changes(m_database)
ReadChanges(t) ==
    /\ pc[t] = "changes"
    /\ rowsOf' = [rowsOf EXCEPT ![t] = changesOf]
    /\ pc' = [pc EXCEPT ![t] = "unlock"]
    /\ UNCHANGED <<shared, params, retValue, results,
                   alreadyTriedReconnecting, done, i, result, history>>

\* variant: the guard is kept over the interpretation of the status
UnlockKeeps(t) ==
    /\ pc[t] = "unlock"
    /\ pc' = [pc EXCEPT ![t] = "switch"]
    /\ UNCHANGED <<shared, params, rowsOf, retValue, results,
                   alreadyTriedReconnecting, done, i, result, history>>

\* unlock()   or   unlock_shared()
Unlock(t) ==
    /\ pc[t] = "unlock"
    /\ writer' = IF writer = t THEN None ELSE writer
    /\ readers' = readers \ {t}
    /\ pc' = [pc EXCEPT ![t] = "switch"]
    /\ UNCHANGED <<config, engine, params, rowsOf, retValue, results,
                   alreadyTriedReconnecting, done, i, result, history>>

\* the loop ends: return retValue == 0
Leave(t) ==
    /\ done' = [done EXCEPT ![t] = TRUE]
    /\ result' = [result EXCEPT ![t] = ReturnValue(retValue[t])]
    /\ pc' = [pc EXCEPT ![t] = "returned"]

\* if (alreadyTriedReconnecting) done = true;
\* else { done = !Reconnect(); alreadyTriedReconnecting = true; }
ReconnectOrGiveUp(t) ==
    IF MayReconnect(alreadyTriedReconnecting[t])
    THEN /\ pc' = [pc EXCEPT ![t] = "reconnect"]
         /\ nReconnect' = [nReconnect EXCEPT ![t] = Rec(t, Bump(@), @)]
         /\ UNCHANGED <<done, result>>
    ELSE /\ Leave(t)
         /\ UNCHANGED nReconnect

\* switch (retValue): case SQLITE_BUSY, case 0, case SQLITE_IOERR; the default
\* case first prints LastErrorMessage()
Interpret(t) ==
    /\ pc[t] = "switch"
    /\ IF retValue[t] = SQLITE_OK
       THEN /\ Leave(t)
            /\ UNCHANGED <<i, nSleep, nReconnect>>
       ELSE IF retValue[t] = SQLITE_BUSY
                 /\ BusyRetries(m_timeoutMs, retry[t], i[t])
       THEN /\ i' = [i EXCEPT ![t] = BusyCounter(m_timeoutMs, retry[t], @)]
            /\ pc' = [pc EXCEPT ![t] = "sleep"]
            /\ nSleep' = [nSleep EXCEPT ![t] = Rec(t, Bump(@), @)]
            /\ UNCHANGED <<done, result, nReconnect>>
       ELSE IF retValue[t] \in {SQLITE_BUSY, SQLITE_IOERR}
       THEN /\ i' = [i EXCEPT ![t] =
                       IF retValue[t] = SQLITE_BUSY
                       THEN BusyCounter(m_timeoutMs, retry[t], @) ELSE @]
            /\ ReconnectOrGiveUp(t)
            /\ UNCHANGED nSleep
       ELSE /\ pc' = [pc EXCEPT ![t] = "errmsg"]
            /\ UNCHANGED <<i, done, result, nSleep, nReconnect>>
    /\ UNCHANGED <<shared, params, rowsOf, retValue, results,
                   alreadyTriedReconnecting>>
    /\ UNCHANGED <<nExec, nBusy, seen, reconnected, budget, startHistory,
                   rowHistory, closedInTxn, dHistory>>

\* default: std::cout << LastErrorMessage(), i.e. sqlite3_a3d_errmsg(m_database)
\* with no guard held, then the same policy as SQLITE_IOERR
LastErrorMessage(t) ==
    /\ pc[t] = "errmsg"
    /\ ReconnectOrGiveUp(t)
    /\ UNCHANGED <<shared, params, rowsOf, retValue, results,
                   alreadyTriedReconnecting, i>>
    /\ UNCHANGED <<nExec, nBusy, nSleep, seen, reconnected, budget,
                   startHistory, rowHistory, closedInTxn, dHistory>>

\* std::this_thread::sleep_for(15 ms) ends; back to the top of the loop
Sleep(t) ==
    /\ pc[t] = "sleep"
    /\ pc' = [pc EXCEPT ![t] = "lock"]
    /\ UNCHANGED <<shared, params, rowsOf, retValue, results,
                   alreadyTriedReconnecting, done, i, result, history>>

----------------------------------------------------------------------------
(* bool Reconnect(), called from ExecStatement *)

\* m_dbConnectionMutex.lock()
ReconnectLock(t) ==
    /\ pc[t] = "reconnect"
    /\ CanLock(writer, readers)
    /\ writer' = t
    /\ pc' = [pc EXCEPT ![t] = "close"]
    /\ UNCHANGED <<config, readers, engine, params, rowsOf, retValue, results,
                   alreadyTriedReconnecting, done, i, result, history>>

\* sqlite3_a3d_close_v2(m_database): the handle and its transaction are gone
ReconnectClose(t) ==
    /\ pc[t] = "close"
    /\ m_database' = "closed"
    /\ autocommit' = 1
    /\ closedInTxn' = [closedInTxn EXCEPT ![t] = IsInTransaction(autocommit)]
    /\ pc' = [pc EXCEPT ![t] = "open"]
    /\ UNCHANGED <<config, guard, changesOf, busyLeft, rowsLeft, params,
                   rowsOf, retValue, results, alreadyTriedReconnecting, done,
                   i, result>>
    /\ UNCHANGED <<nExec, nBusy, nSleep, nReconnect, seen, reconnected, budget,
                   startHistory, rowHistory, dHistory>>

\* sqlite3_a3d_open_v2(...), unlock(), and in the caller
\* done = !Reconnect(); alreadyTriedReconnecting = true
ReconnectOpen(t, ok) ==
    /\ pc[t] = "open"
    /\ m_database' = IF ok THEN "open" ELSE "failed"
    /\ changesOf' = None
    /\ writer' = None
    /\ alreadyTriedReconnecting' = [alreadyTriedReconnecting EXCEPT ![t] = TRUE]
    /\ reconnected' = [reconnected EXCEPT ![t] =
                        Rec(t, IF ok THEN "ok" ELSE "failed", @)]
    /\ IF ok
       THEN /\ pc' = [pc EXCEPT ![t] = "lock"]
            /\ UNCHANGED <<done, result>>
       ELSE Leave(t)
    /\ UNCHANGED <<config, readers, autocommit, busyLeft, rowsLeft, params,
                   rowsOf, retValue, results, i>>
    /\ UNCHANGED <<nExec, nBusy, nSleep, nReconnect, seen, budget,
                   startHistory, rowHistory, closedInTxn, dHistory>>

----------------------------------------------------------------------------
(* ~SqliteWrapper() and bool DestroyDatabase(), run once by the owning    *)
(* thread when no call is in progress                                      *)

\* if (!m_database || !m_isOpened) return false;
DestroyBegin(t) ==
    /\ t \in callers
    /\ destroyer = None
    /\ \A u \in Threads : pc[u] \in {"idle", "returned"}
    /\ destroyer' = t
    /\ pc' = [pc EXCEPT ![t] =
                IF m_database = "null" \/ ~m_isOpened THEN "destroyed"
                ELSE "intxn"]
    /\ UNCHANGED <<m_isOpened, m_timeoutMs, kinds, callers, observed, guard,
                   engine, params, rowsOf, retValue, results,
                   alreadyTriedReconnecting, done, i, result, history>>

\* IsInTransaction() && !RollBackTransaction(): the rollback is
\* ExecStatement("ROLLBACK TRANSACTION", retValue = 0, results, true)
DestroyIsInTransaction(t) ==
    /\ pc[t] = "intxn"
    /\ dTxn' = IsInTransaction(autocommit)
    /\ IF RollsBackFirst(IsInTransaction(autocommit))
       THEN EnterExec(t, "ROLLBACK", TRUE, FALSE, SQLITE_OK, << >>, 1)
       ELSE /\ pc' = [pc EXCEPT ![t] = "dclose"]
            /\ UNCHANGED <<params, rowsOf, retValue, results,
                           alreadyTriedReconnecting, done, i, result>>
            /\ UNCHANGED <<nExec, nBusy, nSleep, nReconnect, seen, reconnected,
                           budget, startHistory, rowHistory, closedInTxn>>
    /\ UNCHANGED <<shared, dRollback>>

\* sqlite3_a3d_close_v2(m_database); m_isOpened = false; m_database = nullptr
DestroyClose(t) ==
    /\ destroyer = t
    /\ pc[t] \in {"dclose", "returned"}
    /\ dRollback' = IF pc[t] = "dclose" THEN "none"
                    ELSE IF result[t] THEN "ok" ELSE "failed"
    /\ m_database' = "null"
    /\ m_isOpened' = FALSE
    /\ autocommit' = 1
    /\ changesOf' = None
    /\ pc' = [pc EXCEPT ![t] = "destroyed"]
    /\ UNCHANGED <<m_timeoutMs, destroyer, kinds, callers, observed, guard,
                   busyLeft, rowsLeft, params, rowsOf, retValue, results,
                   alreadyTriedReconnecting, done, i, result>>
    /\ UNCHANGED <<nExec, nBusy, nSleep, nReconnect, seen, reconnected, budget,
                   startHistory, rowHistory, closedInTxn, dTxn>>

----------------------------------------------------------------------------
Next ==
    \/ \E v \in Timeouts : SetTimeout(v)
    \/ \E t \in Threads, k \in Kinds, r \in BOOLEAN, rows \in BOOLEAN,
          rv \in CallerStatus, sink \in Sinks(rowsLeft),
          c \in ColumnCounts(rowsLeft) :
          Call(t, k, r, rows, rv, sink, c)
    \/ \E t \in Threads : Lock(t)
    \/ \E t \in Threads, status \in Statuses :
          \E rows \in RowBatches(cols[t], rowsLeft) : Exec(t, status, rows)
    \/ \E t \in Threads : ReadChanges(t)
    \/ \E t \in Threads : Unlock(t)
    \/ \E t \in Threads : Interpret(t)
    \/ \E t \in Threads : LastErrorMessage(t)
    \/ \E t \in Threads : Sleep(t)
    \/ \E t \in Threads : ReconnectLock(t)
    \/ \E t \in Threads : ReconnectClose(t)
    \/ \E t \in Threads, ok \in BOOLEAN : ReconnectOpen(t, ok)
    \/ \E t \in Threads : DestroyBegin(t)
    \/ \E t \in Threads : DestroyIsInTransaction(t)
    \/ \E t \in Threads : DestroyClose(t)

\* several threads on one connection
Spec == Init /\ [][Next]_vars

\* one calling thread
SpecOne == InitOne /\ [][Next]_vars

\* one calling thread, with transactions
SpecTxn == InitTxn /\ [][Next]_vars

\* one calling thread, with result rows
SpecRows == InitRows /\ [][Next]_vars

\* the steps of thread t inside a call it has started
Step(t) ==
    \/ Lock(t)
    \/ \E status \in Statuses :
          \E rows \in RowBatches(cols[t], rowsLeft) : Exec(t, status, rows)
    \/ ReadChanges(t)
    \/ Unlock(t)
    \/ Interpret(t)
    \/ LastErrorMessage(t)
    \/ Sleep(t)
    \/ ReconnectLock(t)
    \/ ReconnectClose(t)
    \/ \E ok \in BOOLEAN : ReconnectOpen(t, ok)

\* one calling thread that keeps running: a runnable thread is scheduled, a
\* sleep ends, and with one caller the guard is always free when asked for
FairSpecOne == SpecOne /\ \A t \in Threads : WF_vars(Step(t))

----------------------------------------------------------------------------
(* Properties *)

Returned(t) == pc[t] = "returned"

\* the call made submissions and every reply but the last was BUSY
OnlyBusy(t) == seen[t] \subseteq {SQLITE_BUSY}

\* every reply so far, the last included, was BUSY
AllBusy(t) == seen[t] = {SQLITE_BUSY} /\ retValue[t] = SQLITE_BUSY

\* C1: during one ExecStatement call Reconnect is invoked at most once,
\* whatever status codes the engine returns, whatever the retry flag and
\* whatever the timeout budget is or becomes.
C1_ReconnectAtMostOnce == \A t \in Threads : nReconnect[t] <= 1

C1_Witness ==
    \E t \in Threads :
        /\ Returned(t)
        /\ nReconnect[t] = 1
        /\ {SQLITE_BUSY, SQLITE_IOERR} \subseteq seen[t]
        /\ budget[t] = "mixed"

\* C2: with a non-zero timeout budget that does not change during the call,
\* the call performs at most 10 busy-backoff sleeps, at most one Reconnect and
\* at most 12 submissions, and it returns.
C2_Terminates ==
    /\ [](\A t \in Threads :
            budget[t] = "nonzero" =>
                /\ nSleep[t] <= BusyRetryCap
                /\ nReconnect[t] <= 1
                /\ nExec[t] <= BusyRetryCap + 2)
    /\ \A t \in Threads :
          (Active(t) /\ budget[t] = "nonzero")
              ~> (Returned(t) \/ budget[t] = "mixed")

C2_Witness ==
    \E t \in Threads :
        /\ Returned(t)
        /\ budget[t] = "nonzero"
        /\ nSleep[t] = BusyRetryCap
        /\ nReconnect[t] = 1
        /\ nExec[t] = BusyRetryCap + 2

\* C3 as claimed: for every timeout budget (zero included) that does not
\* change during the call, a call with retries disabled whose engine answers
\* BUSY on every submission returns, with failure and after at most one
\* Reconnect.
C3_AnyBudget ==
    /\ [](\A t \in Threads :
            (Returned(t) /\ ~retry[t] /\ AllBusy(t) /\ budget[t] # "mixed") =>
                (~result[t] /\ nReconnect[t] <= 1))
    /\ \A t \in Threads :
          (Active(t) /\ ~retry[t])
              ~> (Returned(t) \/ ~OnlyBusy(t) \/ budget[t] = "mixed")

\* C3 as amended: for every non-zero timeout budget that does not change
\* during the call, a call with retries disabled whose engine answers BUSY on
\* every submission returns, with failure, after at most one Reconnect (no
\* busy-backoff sleep, at most two submissions).
C3_NonZeroBudget ==
    /\ [](\A t \in Threads :
            (~retry[t] /\ budget[t] = "nonzero" /\ OnlyBusy(t)) =>
                /\ nSleep[t] = 0
                /\ nReconnect[t] <= 1
                /\ nExec[t] <= 2
                /\ (Returned(t) /\ AllBusy(t)) => ~result[t])
    /\ \A t \in Threads :
          (Active(t) /\ ~retry[t] /\ budget[t] = "nonzero")
              ~> (Returned(t) \/ ~OnlyBusy(t) \/ budget[t] = "mixed")

C3_Witness ==
    \E t \in Threads :
        /\ Returned(t)
        /\ ~retry[t]
        /\ budget[t] = "nonzero"
        /\ AllBusy(t)
        /\ nReconnect[t] = 1
        /\ reconnected[t] = "ok"
        /\ nExec[t] = 2
        /\ ~result[t]

\* C4: with retries enabled and a non-zero timeout budget, a call whose engine
\* answers BUSY k times (k <= 10) and then success never invokes Reconnect and
\* returns success.
C4_BusyThenSuccess ==
    \A t \in Threads :
        (retry[t] /\ budget[t] = "nonzero" /\ OnlyBusy(t)
                  /\ nBusy[t] <= BusyRetryCap) =>
            /\ nReconnect[t] = 0
            /\ (Returned(t) /\ nExec[t] > 0) =>
                   (retValue[t] = SQLITE_OK /\ result[t])

C4_Witness ==
    \E t \in Threads :
        /\ Returned(t)
        /\ retry[t]
        /\ budget[t] = "nonzero"
        /\ OnlyBusy(t)
        /\ nBusy[t] = BusyRetryCap
        /\ nReconnect[t] = 0
        /\ result[t]

\* C5: with retries enabled and a non-zero timeout budget, a call whose engine
\* answers BUSY on every submission, before and after a successful Reconnect,
\* invokes Reconnect exactly once, only after 10 busy-backoff sleeps, and
\* returns failure.
C5_BusyForEver ==
    \A t \in Threads :
        (retry[t] /\ budget[t] = "nonzero" /\ OnlyBusy(t)) =>
            /\ nReconnect[t] >= 1 => nSleep[t] = BusyRetryCap
            /\ (Returned(t) /\ AllBusy(t) /\ reconnected[t] = "ok") =>
                   (nReconnect[t] = 1 /\ ~result[t]
                                      /\ nExec[t] = BusyRetryCap + 2)

C5_Witness ==
    \E t \in Threads :
        /\ Returned(t)
        /\ retry[t]
        /\ budget[t] = "nonzero"
        /\ AllBusy(t)
        /\ reconnected[t] = "ok"
        /\ nReconnect[t] = 1
        /\ ~result[t]

\* C6: with the timeout budget 0 during the whole call, a call whose engine
\* answers BUSY n times and then success never invokes Reconnect: every BUSY
\* is followed by a backoff sleep and a resubmission, and the call returns
\* success, for n > 10 too and whatever the retry flag.
C6_ZeroBudget ==
    \A t \in Threads :
        (budget[t] = "zero" /\ OnlyBusy(t)) =>
            /\ nReconnect[t] = 0
            /\ pc[t] \notin {"unlock", "switch"} => nSleep[t] = nBusy[t]
            /\ (Returned(t) /\ nExec[t] > 0) =>
                   (retValue[t] = SQLITE_OK /\ result[t])

C6_Witness ==
    \E t \in Threads :
        /\ Returned(t)
        /\ budget[t] = "zero"
        /\ nBusy[t] > BusyRetryCap
        /\ nSleep[t] = nBusy[t]
        /\ nReconnect[t] = 0
        /\ result[t]

InSubmission(t) == pc[t] \in {"exec", "changes", "unlock"}

InReconnect(t) == pc[t] \in {"close", "open"}

\* C7: while a call that wants a row count is between its acquisition of the
\* guard and its release (the submission and the read of the rows-changed
\* counter), no other call is inside a submission and no Reconnect runs; the
\* counter it reads is the one its own statement set.
C7_RowCountExclusive ==
    \A t \in Threads :
        (wantRows[t] /\ InSubmission(t)) =>
            /\ \A u \in Threads \ {t} : ~InSubmission(u) /\ ~InReconnect(u)
            /\ pc[t] = "changes" => changesOf = t
            /\ (pc[t] = "unlock" /\ retValue[t] = SQLITE_OK) => rowsOf[t] = t

C7_Witness ==
    \E t \in Threads, u \in Threads :
        /\ pc[t] = "unlock"
        /\ wantRows[t]
        /\ rowsOf[t] = t
        /\ changesOf = t
        /\ pc[u] \in {"lock", "reconnect"}

\* C8: a call that wants no row count can take the guard whenever no thread
\* holds it exclusively, also while other calls hold the shared side: it never
\* waits for another shared holder.
C8_SharedDoNotWait ==
    \A t \in Threads :
        (pc[t] = "lock" /\ ~wantRows[t] /\ writer = None) => ENABLED Lock(t)

C8_Witness ==
    \E t \in Threads, u \in Threads :
        /\ t # u
        /\ pc[t] = "exec" /\ ~wantRows[t]
        /\ pc[u] = "exec" /\ ~wantRows[u]
        /\ {t, u} \subseteq readers

\* C9: on a connection that is not ready a call returns false at once: it
\* never reaches the guard, a submission or Reconnect.
C9_NotReadyRejected ==
    (~m_isOpened /\ destroyer = None) =>
        \A t \in Threads :
            /\ pc[t] \in {"idle", "returned"}
            /\ Returned(t) => ~result[t]
            /\ t \notin readers /\ writer # t
            /\ nExec[t] = 0 /\ nReconnect[t] = 0

C9_Witness ==
    \E t \in Threads :
        ~m_isOpened /\ destroyer = None /\ Returned(t) /\ ~result[t]

\* C10: whenever a call has returned, the boolean it returned is true exactly
\* when the status code in the caller's retValue is the success code.
C10_ResultMatchesStatus ==
    \A t \in Threads : Returned(t) => (result[t] <=> retValue[t] = SQLITE_OK)

\* a call whose submissions answered no BUSY and at least one error
ErrorsOnly(t) == Returned(t) /\ nBusy[t] = 0 /\ seen[t] # {}

\* C11: a call whose submission failed with IO_ERROR or another non-BUSY error
\* calls Reconnect exactly once; when that Reconnect got a new handle there is
\* exactly one more submission and the call returns success if that submission
\* succeeded and failure, with no further Reconnect, if it failed again; when
\* the Reconnect got no handle the call returns failure at once.
C11_ReconnectThenOutcome ==
    \A t \in Threads :
        ErrorsOnly(t) =>
            /\ nReconnect[t] = 1
            /\ reconnected[t] # "none"
            /\ reconnected[t] = "ok" =>
                   /\ nExec[t] = 2
                   /\ result[t] = (retValue[t] = SQLITE_OK)
                   /\ retValue[t] # SQLITE_OK => done[t]
            /\ reconnected[t] = "failed" => nExec[t] = 1 /\ ~result[t]

\* an I/O error, a Reconnect that got a handle, a successful second submission
C11_Witness ==
    \E t \in Threads :
        /\ ErrorsOnly(t)
        /\ seen[t] = {SQLITE_IOERR}
        /\ reconnected[t] = "ok"
        /\ nExec[t] = 2
        /\ result[t]

\* thread t is destroying the connection and has found a transaction open
DestroyingInTransaction(t) == destroyer = t /\ dTxn /\ pc[t] # "intxn"

\* C12: destroying a connection on which a transaction is open submits a
\* ROLLBACK before the handle is released: while the rollback runs the handle
\* is still held and the connection ready, the close is reached only through
\* the rollback's return, and whether the rollback succeeded or failed the
\* close can then proceed, leaving no handle and a connection that is not
\* ready.
C12_DestroyRollsBack ==
    \A t \in Threads :
        DestroyingInTransaction(t) =>
            /\ stmt[t] = "ROLLBACK"
            /\ pc[t] # "dclose"
            /\ pc[t] # "destroyed" => m_database # "null" /\ m_isOpened
            /\ pc[t] = "returned" => nExec[t] >= 1 /\ ENABLED DestroyClose(t)
            /\ pc[t] = "destroyed" =>
                   /\ dRollback \in {"ok", "failed"}
                   /\ nExec[t] >= 1
                   /\ m_database = "null"
                   /\ ~m_isOpened

\* a destruction completed although its rollback failed
C12_Witness ==
    \E t \in Threads :
        /\ DestroyingInTransaction(t)
        /\ pc[t] = "destroyed"
        /\ dRollback = "failed"
        /\ m_database = "null"
        /\ ~m_isOpened

\* what the caller's vector held for column c before the call
Prior(sink, c) == IF c <= Len(sink) THEN sink[c] ELSE << >>

\* the cells that the callback invocations of a call received for column c
ColumnCells(rows, c) == [k \in 1..Len(rows) |-> Text(rows[k][c])]

C14_HelpersSetTransaction ==
    \A t \in Threads :
        (Returned(t) /\ result[t] /\ destroyer = None) =>
            /\ stmt[t] = "BEGIN" => IsInTransaction(autocommit)
            /\ stmt[t] \in {"COMMIT", "ROLLBACK"} => ~IsInTransaction(autocommit)

\* a BEGIN that succeeded after a busy retry and a Reconnect
C14_Witness ==
    \E t \in Threads :
        /\ Returned(t) /\ result[t] /\ destroyer = None
        /\ stmt[t] = "BEGIN"
        /\ nBusy[t] = 1
        /\ reconnected[t] = "ok"
        /\ IsInTransaction(autocommit)

\* C15: a call keeps the retry mode of the budget in force when it started,
\* whatever SetTimeout does meanwhile: started with budget 0 it never answers
\* a BUSY reply with a Reconnect or a failure, and started with a non-zero
\* budget it sleeps at most 10 times.
C15_BudgetFixedAtStart ==
    \A t \in Threads :
        /\ (tm0[t] = 0 /\ seen[t] \subseteq {SQLITE_BUSY}) =>
               /\ nReconnect[t] = 0
               /\ Returned(t) /\ nExec[t] > 0 => result[t]
        /\ tm0[t] # 0 => nSleep[t] <= BusyRetryCap

\* C16: whenever no thread is in the middle of Reconnect, IsReady() is true
\* exactly when the connection holds an open, usable engine handle.
C16_ReadyIffLiveHandle ==
    (\A t \in Threads : pc[t] \notin {"close", "open"}) =>
        (IsReady(m_isOpened) <=> m_database = "open")

\* C17: Reconnect closes a handle on which a transaction is active only after
\* it has submitted a ROLLBACK on that handle.  The steps of Reconnect are
\* lock, close, open and unlock, none of them a submission, so the property
\* is that the close of Reconnect never finds a transaction active.
C17_ReconnectRollsBackFirst ==
    \A t \in Threads : InReconnect(t) => ~closedInTxn[t]

\* thread t is at a statement that passes m_database to the engine: the
\* submission, the rows-changed read, the error-message query, the close and
\* open of Reconnect, the autocommit query and the close of DestroyDatabase
UsesHandle(t) ==
    pc[t] \in {"exec", "changes", "errmsg", "close", "open", "intxn", "dclose"}

HoldsGuard(t) == writer = t \/ t \in readers

\* C18: every use of the engine handle is made by a thread that holds the
\* guard, the closes of Reconnect and of DestroyDatabase are made holding it
\* exclusively, and no thread uses the handle while another thread is between
\* the close and the open of Reconnect.
C18_HandleUsesGuarded ==
    \A t \in Threads :
        /\ UsesHandle(t) => HoldsGuard(t)
        /\ pc[t] \in {"close", "open", "dclose"} => writer = t
        /\ \A u \in Threads \ {t} : InReconnect(u) => ~UsesHandle(t)

\* C19: a call holds the guard only from its acquisition to its release
\* around one submission and the rows-changed read, and inside Reconnect,
\* which takes it itself: it holds no side of it while it sleeps in backoff,
\* interprets the status or is about to call Reconnect.  So a thread waiting
\* for the guard while the other one sleeps can acquire it, in either mode,
\* and when every caller has reached Reconnect one of them can acquire it.
C19_GuardOnlyAroundSubmission ==
    /\ \A t \in Threads :
           /\ pc[t] \in {"lock", "switch", "errmsg", "sleep", "reconnect",
                         "idle", "returned"} => ~HoldsGuard(t)
           /\ HoldsGuard(t) => InSubmission(t) \/ InReconnect(t)
           /\ \A u \in Threads \ {t} :
                  pc[t] = "sleep" =>
                      /\ pc[u] = "lock" => ENABLED Lock(u)
                      /\ pc[u] = "reconnect" => ENABLED ReconnectLock(u)
    /\ (\A t \in callers : pc[t] = "reconnect") =>
           \E t \in callers : ENABLED ReconnectLock(t)

\* one thread sleeps in backoff while the other holds the guard exclusively
\* inside Reconnect
C19_Witness ==
    \E t \in Threads, u \in Threads :
        /\ t # u
        /\ pc[t] = "sleep"
        /\ pc[u] = "close"
        /\ writer = u

\* C20: the result of a successful call is what the callback builds from an
\* empty result with the rows of the call's last submission alone: neither
\* rows of earlier, retried submissions of the call nor what the caller's
\* vector held before the call are in it.
C20_OnlyFinalSubmission ==
    \A t \in Threads :
        (Returned(t) /\ result[t]) => results[t] = Deliver(<< >>, lastRows[t])

====
